---- MODULE Spec2Model ----
(***************************************************************************)
(* Multi-tenant timezone projection: the tables dim_merchant and           *)
(* dws_orders, the view dws_orders_analysis_view over them, and the        *)
(* TimezoneService operations that read them.                              *)
(*                                                                         *)
(* Time is counted in minutes.  A timestamptz (a UTC instant) is the       *)
(* number of minutes since 2024-01-01T00:00:00Z; a timestamp without time  *)
(* zone (a wall-clock time) is the number of minutes since 2024-01-01      *)
(* 00:00 on that wall clock.  A date is the tuple <<year, month, day>>.    *)
(* All instants of the model lie inside the year 2024.                     *)
(***************************************************************************)
EXTENDS Integers, Sequences, FiniteSets, TLC

VARIABLES dim_merchant, dws_orders, result

vars == <<dim_merchant, dws_orders, result>>

(* ------------------------------ bounds --------------------------------- *)

\* Largest number of merchant rows in a table with several rows.
MaxMerchants == 2
\* Largest number of order rows in a table with several rows.
MaxOrders == 2
\* Number of consecutive days, from Friday 2024-08-16, whose half hours are
\* the anchor instants of the single-record tables.
NumDays == 7
\* Largest LIMIT and OFFSET passed to GetOrders.
MaxLimit == 2
MaxOffset == 1

(* ----------------------------- calendar -------------------------------- *)

\* Lengths of the months of 2024 (a leap year).
DaysInMonth == <<31, 29, 31, 30, 31, 30, 31, 31, 30, 31, 30, 31>>

RECURSIVE DaysBeforeMonth(_)
DaysBeforeMonth(mo) ==
    IF mo = 1 THEN 0 ELSE DaysBeforeMonth(mo - 1) + DaysInMonth[mo - 1]

\* The instant mo-d hh:mi:00 UTC of 2024, in minutes since 2024-01-01T00:00Z.
Utc(mo, d, hh, mi) == ((DaysBeforeMonth(mo) + d - 1) * 24 + hh) * 60 + mi

RECURSIVE CivilFrom(_, _)
CivilFrom(day, mo) ==
    IF day < DaysInMonth[mo] THEN <<2024, mo, day + 1>>
    ELSE CivilFrom(day - DaysInMonth[mo], mo + 1)

\* ts::date - the calendar date of a timestamp.
DateOf(ts) == CivilFrom(ts \div 1440, 1)

\* EXTRACT(HOUR FROM ts)
ExtractHour(ts) == (ts % 1440) \div 60

\* ts formatted with minute precision: its date, hour and minute.
ExtractMinute(ts) == ts % 60

\* EXTRACT(DOW FROM ts): 0 = Sunday ... 6 = Saturday.  2024-01-01 is a Monday.
ExtractDow(ts) == ((ts \div 1440) + 1) % 7

(* ------------------------------- zones --------------------------------- *)

\* The zone names of the model, in the order ORDER BY timezone gives them.
ZoneNames ==
    << "America/Bogota", "America/New_York", "America/Sao_Paulo",
       "Asia/Kolkata", "Asia/Tokyo", "Pacific/Auckland",
       "Pacific/Kiritimati", "Pacific/Tongatapu", "UTC" >>

Zones == { ZoneNames[i] : i \in 1..Len(ZoneNames) }

ZoneRank(z) == CHOOSE i \in 1..Len(ZoneNames) : ZoneNames[i] = z

\* Variant of ZoneOffset: one static offset per zone, the standard time of
\* the zone.
ZoneOffsetStatic(zone, t) ==
    CASE zone = "UTC"                -> 0
      [] zone = "Asia/Tokyo"         -> 540
      [] zone = "Asia/Kolkata"       -> 330
      [] zone = "America/Bogota"     -> -300
      [] zone = "America/Sao_Paulo"  -> -180
      [] zone = "Pacific/Tongatapu"  -> 780
      [] zone = "Pacific/Kiritimati" -> 840
      [] zone = "America/New_York"   -> -300
      [] zone = "Pacific/Auckland"   -> 720

\* The zone rule: minutes to add to a UTC instant to get the wall clock of
\* the zone at that instant (the 2024 rules of the tz database).
ZoneOffset(zone, t) ==
    CASE zone = "UTC"                -> 0
      [] zone = "Asia/Tokyo"         -> 540
      [] zone = "Asia/Kolkata"       -> 330
      [] zone = "America/Bogota"     -> -300
      [] zone = "America/Sao_Paulo"  -> -180
      [] zone = "Pacific/Tongatapu"  -> 780
      [] zone = "Pacific/Kiritimati" -> 840
      [] zone = "America/New_York"   ->
            IF Utc(3, 10, 7, 0) <= t /\ t < Utc(11, 3, 6, 0) THEN -240 ELSE -300
      [] zone = "Pacific/Auckland"   ->
            IF t < Utc(4, 6, 14, 0) \/ Utc(9, 28, 14, 0) <= t THEN 780 ELSE 720

\* Variants of AtTimeZone: the zone is ignored; the offset is applied with
\* the opposite sign.
AtTimeZoneIgnoringZone(t, zone) == t
AtTimeZoneReversed(t, zone) == t - ZoneOffset(zone, t)

\* timestamptz AT TIME ZONE zone: the wall-clock timestamp in the zone.
AtTimeZone(t, zone) == t + ZoneOffset(zone, t)

(* ------------------------------ tables --------------------------------- *)

\* chk_order_status: the closed enumeration of order statuses.
OrderStatuses ==
    {"pending", "paid", "shipped", "delivered", "cancelled", "refunded"}

\* One row of dim_merchant (the columns the service reads).
MerchantRow(id, zone) == [merchant_id |-> id, timezone |-> zone]

\* One row of dws_orders (the columns the view reads).
OrderRow(id, mid, t, amt, st) ==
    [order_id |-> id, merchant_id |-> mid, order_time_utc |-> t,
     amount |-> amt, status |-> st]

Merchants == { dim_merchant[i] : i \in 1..Len(dim_merchant) }
Orders == { dws_orders[i] : i \in 1..Len(dws_orders) }

\* The constraints of the schema: primary keys, the foreign key
\* dws_orders.merchant_id -> dim_merchant.merchant_id, chk_order_amount_positive
\* and chk_order_status.
SchemaOK ==
    /\ \A i \in 1..Len(dim_merchant) : dim_merchant[i].merchant_id = i
    /\ \A i \in 1..Len(dws_orders) :
          /\ dws_orders[i].order_id = i
          /\ \E m \in Merchants : m.merchant_id = dws_orders[i].merchant_id
          /\ dws_orders[i].amount > 0
          /\ dws_orders[i].status \in OrderStatuses

(* ------------------------------- view ---------------------------------- *)

\* Variant of ViewIsWeekend: the weekend days numbered as ISODOW (6, 7).
ViewIsWeekendIsoDow(local) == ExtractDow(local) \in {6, 7}

\* is_weekend of the view: EXTRACT(DOW FROM order_time_local) IN (0,6).
ViewIsWeekend(local) == ExtractDow(local) \in {0, 6}

\* is_business_hour of the view: DOW BETWEEN 1 AND 5 AND HOUR BETWEEN 9 AND 18.
ViewIsBusinessHour(local) ==
    /\ ExtractDow(local) \in 1..5
    /\ ExtractHour(local) \in 9..18

\* timezone_offset of the view, in seconds:
\* EXTRACT(EPOCH FROM (order_time_local - (order_time_utc AT TIME ZONE 'UTC'))).
ViewTimezoneOffset(t, local) == (local - AtTimeZone(t, "UTC")) * 60

\* Variant of ViewRow: the local time is taken in the zone of the first
\* stored merchant, whichever merchant the order belongs to.
ViewRowInFirstZone(o, m) ==
    LET local == AtTimeZone(o.order_time_utc, dim_merchant[1].timezone)
    IN  [order_id          |-> o.order_id,
         amount            |-> o.amount,
         status            |-> o.status,
         merchant_id       |-> m.merchant_id,
         timezone          |-> m.timezone,
         order_time_utc    |-> o.order_time_utc,
         order_time_local  |-> local,
         local_date        |-> DateOf(local),
         local_hour        |-> ExtractHour(local),
         local_day_of_week |-> ExtractDow(local),
         is_weekend        |-> ViewIsWeekend(local),
         is_business_hour  |-> ViewIsBusinessHour(local),
         timezone_offset   |-> ViewTimezoneOffset(o.order_time_utc, local)]

\* The row of dws_orders_analysis_view for order o joined with merchant m.
ViewRow(o, m) ==
    LET local == AtTimeZone(o.order_time_utc, m.timezone)
    IN  [order_id          |-> o.order_id,
         amount            |-> o.amount,
         status            |-> o.status,
         merchant_id       |-> m.merchant_id,
         timezone          |-> m.timezone,
         order_time_utc    |-> o.order_time_utc,
         order_time_local  |-> local,
         local_date        |-> DateOf(local),
         local_hour        |-> ExtractHour(local),
         local_day_of_week |-> ExtractDow(local),
         is_weekend        |-> ViewIsWeekend(local),
         is_business_hour  |-> ViewIsBusinessHour(local),
         timezone_offset   |-> ViewTimezoneOffset(o.order_time_utc, local)]

\* Variant of dws_orders_analysis_view: the join without its ON condition.
ViewCrossJoin == { ViewRow(o, m) : <<o, m>> \in Orders \X Merchants }

\* dws_orders_analysis_view: dws_orders o JOIN dim_merchant m
\* ON m.merchant_id = o.merchant_id.
dws_orders_analysis_view ==
    { ViewRow(o, m) : <<o, m>> \in
        { om \in Orders \X Merchants : om[2].merchant_id = om[1].merchant_id } }

(* ----------------------------- helpers --------------------------------- *)

\* The orderings of the finite set S, as sequences.
Perms(S) ==
    { f \in [1..Cardinality(S) -> S] :
        \A i, j \in 1..Cardinality(S) : i # j => f[i] # f[j] }

\* Rows offset+1 .. offset+limit of s (LIMIT limit OFFSET offset).
LimitOffset(s, limit, offset) ==
    IF offset >= Len(s) THEN << >>
    ELSE SubSeq(s, offset + 1,
                IF offset + limit < Len(s) THEN offset + limit ELSE Len(s))

\* Go's nil: no value, or no error.
Nil == "nil"

(* ---------------------------- GetOrders -------------------------------- *)

\* The rows the query of GetOrders selects: the whole view, or the rows
\* WHERE timezone = $1 when a timezone is given.
GetOrdersRows(timezone) ==
    IF timezone # "" THEN { r \in dws_orders_analysis_view : r.timezone = timezone }
    ELSE dws_orders_analysis_view

\* ORDER BY order_time_utc DESC: every ordering the sort key allows.
GetOrdersSorted(timezone) ==
    { s \in Perms(GetOrdersRows(timezone)) :
        \A i, j \in 1..Len(s) :
            i < j => s[i].order_time_utc >= s[j].order_time_utc }

\* rows.Scan into models.OrderAnalysis, LocalDate formatted as a date.
OrderAnalysis(r) ==
    [OrderID        |-> r.order_id,
     Amount         |-> r.amount,
     Status         |-> r.status,
     MerchantID     |-> r.merchant_id,
     Timezone       |-> r.timezone,
     OrderTimeUTC   |-> r.order_time_utc,
     OrderTimeLocal |-> r.order_time_local,
     LocalDate      |-> r.local_date,
     LocalHour      |-> r.local_hour,
     LocalDayOfWeek |-> r.local_day_of_week,
     IsWeekend      |-> r.is_weekend,
     IsBusinessHour |-> r.is_business_hour,
     TimezoneOffset |-> r.timezone_offset]

\* TimezoneService.GetOrders(timezone, limit, offset).  dbOk is whether the
\* query succeeds at the database.  The result records the arguments of the
\* call and the number of queries it sent.
GetOrdersCall(timezone, limit, offset, dbOk) ==
    /\ result.op = "none"
    /\ \E s \in GetOrdersSorted(timezone) :
          result' =
            IF ~dbOk
            THEN [op |-> "GetOrders", err |-> "QueryFailed", value |-> Nil,
                  arg |-> [timezone |-> timezone, limit |-> limit,
                           offset |-> offset],
                  queries |-> 1]
            ELSE [op |-> "GetOrders", err |-> Nil,
                  value |-> [i \in 1..Len(LimitOffset(s, limit, offset)) |->
                               OrderAnalysis(LimitOffset(s, limit, offset)[i])],
                  arg |-> [timezone |-> timezone, limit |-> limit,
                           offset |-> offset],
                  queries |-> 1]
    /\ UNCHANGED <<dim_merchant, dws_orders>>

\* The timezone parameters of the requests: none, the zone of a stored
\* merchant, or UTC (a zone that may have no merchant).
TimezoneParams == {"", "UTC"} \cup { m.timezone : m \in Merchants }

GetOrders ==
    \E timezone \in TimezoneParams, limit \in 1..MaxLimit,
       offset \in 0..MaxOffset, dbOk \in BOOLEAN :
        GetOrdersCall(timezone, limit, offset, dbOk)

(* ------------------------- CompareTimezones ---------------------------- *)

\* A utc_time request string "2024-MM-DDThh:mm:00<zone>": shape says whether
\* the text has the RFC3339 layout at all, off is the numeric zone of the
\* text in minutes (0 for "Z").
TimeString(shape, mo, d, hh, mi, off) ==
    [shape |-> shape, mo |-> mo, d |-> d, hh |-> hh, mi |-> mi, off |-> off]

\* time.Parse(time.RFC3339, s): fails unless every field is in range.
ParseOK(s) ==
    /\ s.shape = "rfc3339"
    /\ s.mo \in 1..12
    /\ s.d \in 1..DaysInMonth[s.mo]
    /\ s.hh \in 0..23
    /\ s.mi \in 0..59
    /\ s.off \in -1439..1439

\* The instant a parsed time denotes (what the driver sends as $1).
ParsedInstant(s) == Utc(s.mo, s.d, s.hh, s.mi) - s.off

\* utcTime.Hour(): the hour field of the parsed time, in the zone of the text.
ParsedHour(s) == s.hh

\* TO_CHAR(ts, 'Day'), trimmed.
DayName(ts) ==
    << "Sunday", "Monday", "Tuesday", "Wednesday", "Thursday", "Friday",
       "Saturday" >>[ExtractDow(ts) + 1]

\* is_weekend of the comparison query: EXTRACT(dow ...) IN (0, 6).
CompareIsWeekend(local) == ExtractDow(local) \in {0, 6}

\* is_business_hour of the comparison query: EXTRACT(hour ...) BETWEEN 9 AND 17.
CompareIsBusinessHour(local) == ExtractHour(local) \in 9..17

\* Variant of HourDiff: the difference is not wrapped.
HourDiffNoWrap(itemHour, utcHour) == itemHour - utcHour

\* hourDiff := item.Hour - utcTime.Hour(), wrapped once by 24.
HourDiff(itemHour, utcHour) ==
    LET hourDiff == itemHour - utcHour
    IN  IF hourDiff > 12 THEN hourDiff - 24
        ELSE IF hourDiff < -12 THEN hourDiff + 24
        ELSE hourDiff

\* One scanned row of the comparison query for merchant m, with the time
\* difference the loop body adds.
ComparisonItem(m, s) ==
    LET local == AtTimeZone(ParsedInstant(s), m.timezone)
    IN  [MerchantName   |-> m.merchant_id,
         Timezone       |-> m.timezone,
         LocalTime      |-> <<DateOf(local), ExtractHour(local), ExtractMinute(local)>>,
         LocalDate      |-> DateOf(local),
         Hour           |-> ExtractHour(local),
         DayOfWeek      |-> DayName(local),
         IsWeekend      |-> CompareIsWeekend(local),
         IsBusinessHour |-> CompareIsBusinessHour(local),
         TimeDifference |-> HourDiff(ExtractHour(local), ParsedHour(s))]

\* FROM dim_merchant ORDER BY timezone: every ordering the sort key allows.
MerchantsByTimezone ==
    { q \in Perms(Merchants) :
        \A i, j \in 1..Len(q) :
            i < j => ZoneRank(q[i].timezone) <= ZoneRank(q[j].timezone) }

\* The counters of the scan loop after the first n items of items.
RECURSIVE CompareLoop(_, _)
CompareLoop(items, n) ==
    IF n = 0
    THEN [businessHourCount |-> 0, weekendCount |-> 0, totalHours |-> 0,
          minHour |-> 24, maxHour |-> -1]
    ELSE LET acc  == CompareLoop(items, n - 1)
             item == items[n]
         IN  [businessHourCount |->
                 acc.businessHourCount + (IF item.IsBusinessHour THEN 1 ELSE 0),
              weekendCount |->
                 acc.weekendCount + (IF item.IsWeekend THEN 1 ELSE 0),
              totalHours |-> acc.totalHours + item.Hour,
              minHour |-> IF item.Hour < acc.minHour THEN item.Hour ELSE acc.minHour,
              maxHour |-> IF item.Hour > acc.maxHour THEN item.Hour ELSE acc.maxHour]

\* The zero value of models.TimezoneStatistics.  AverageHour is kept as the
\* fraction <<numerator, denominator>>.
ZeroStatistics ==
    [BusinessHourCount |-> 0, WeekendCount |-> 0, AverageHour |-> <<0, 1>>,
     TimezoneSpread |-> 0]

\* Variant of CompareStatistics: filled without the totalCount > 0 guard.
CompareStatisticsUnguarded(items) ==
    LET acc == CompareLoop(items, Len(items))
    IN  [BusinessHourCount |-> acc.businessHourCount,
         WeekendCount      |-> acc.weekendCount,
         AverageHour       |-> <<acc.totalHours, Len(items)>>,
         TimezoneSpread    |-> acc.maxHour - acc.minHour]

\* Variant of CompareStatistics: the spread counts the hours from minHour to
\* maxHour, both included.
CompareStatisticsInclusiveSpread(items) ==
    LET acc        == CompareLoop(items, Len(items))
        totalCount == Len(items)
    IN  IF totalCount > 0
        THEN [BusinessHourCount |-> acc.businessHourCount,
              WeekendCount      |-> acc.weekendCount,
              AverageHour       |-> <<acc.totalHours, totalCount>>,
              TimezoneSpread    |-> acc.maxHour - acc.minHour + 1]
        ELSE ZeroStatistics

\* comparison.Statistics: filled only if totalCount > 0.
CompareStatistics(items) ==
    LET acc        == CompareLoop(items, Len(items))
        totalCount == Len(items)
    IN  IF totalCount > 0
        THEN [BusinessHourCount |-> acc.businessHourCount,
              WeekendCount      |-> acc.weekendCount,
              AverageHour       |-> <<acc.totalHours, totalCount>>,
              TimezoneSpread    |-> acc.maxHour - acc.minHour]
        ELSE ZeroStatistics

\* TimezoneService.CompareTimezones(utcTimeStr).  dbOk is whether the query
\* succeeds at the database.
CompareTimezonesCall(s, dbOk) ==
    /\ result.op = "none"
    /\ \E q \in MerchantsByTimezone :
          result' =
            IF ~ParseOK(s)
            THEN [op |-> "CompareTimezones", err |-> "InvalidInstantFormat",
                  value |-> Nil, arg |-> s, queries |-> 0]
            ELSE IF ~dbOk
            THEN [op |-> "CompareTimezones", err |-> "QueryFailed",
                  value |-> Nil, arg |-> s, queries |-> 1]
            ELSE LET items == [i \in 1..Len(q) |-> ComparisonItem(q[i], s)]
                 IN  [op |-> "CompareTimezones", err |-> Nil,
                      value |-> [UTCTime     |-> s,
                                 Comparisons |-> items,
                                 Statistics  |-> CompareStatistics(items)],
                      arg |-> s, queries |-> 1]
    /\ UNCHANGED <<dim_merchant, dws_orders>>

\* The utc_time strings of the requests: the anchor instant of every stored
\* order written in UTC ("...Z"), the default of the request handler
\* (2024-08-19T00:00:00Z), that same instant written with the numeric zone
\* +09:00, a Saturday afternoon, and three strings time.Parse rejects.
AnchorString(t) ==
    TimeString("rfc3339", DateOf(t)[2], DateOf(t)[3], ExtractHour(t),
               ExtractMinute(t), 0)

UtcTimeStrings ==
    { AnchorString(o.order_time_utc) : o \in Orders } \cup
    { TimeString("rfc3339", 8, 19, 0, 0, 0),
      TimeString("rfc3339", 8, 19, 9, 0, 540),
      TimeString("rfc3339", 8, 17, 13, 0, 0),
      TimeString("date", 8, 19, 0, 0, 0),
      TimeString("rfc3339", 8, 19, 24, 0, 0),
      TimeString("rfc3339", 2, 30, 12, 0, 0) }

CompareTimezones ==
    \E s \in UtcTimeStrings, dbOk \in BOOLEAN : CompareTimezonesCall(s, dbOk)

(* -------------------------- GetAnalysisData ---------------------------- *)

\* LIMIT 10 of the top-merchants query.
TopLimit == 10

\* A date request string "2024-MM-DD": shape says whether the text has the
\* layout 2006-01-02 at all.
DateString(shape, mo, d) == [shape |-> shape, mo |-> mo, d |-> d]

\* Variant of DateParseOK: only the layout of the text is tested.
DateParseLayoutOnly(s) == s.shape = "date"

\* time.Parse("2006-01-02", date): fails unless month and day are in range.
DateParseOK(s) ==
    /\ s.shape = "date"
    /\ s.mo \in 1..12
    /\ s.d \in 1..DaysInMonth[s.mo]

\* The date the text denotes when the database compares it with local_date.
ParsedDate(s) == <<2024, s.mo, s.d>>

\* FROM dws_orders_analysis_view WHERE local_date = $1
AnalysisRows(date) ==
    { r \in dws_orders_analysis_view : r.local_date = ParsedDate(date) }

RECURSIVE SumAmount(_)
SumAmount(rows) ==
    IF rows = {} THEN 0
    ELSE LET r == CHOOSE r \in rows : TRUE
         IN  r.amount + SumAmount(rows \ {r})

\* SUM(amount): NULL (the empty tuple) over no rows, else <<the sum>>.
SqlSum(rows) == IF rows = {} THEN << >> ELSE <<SumAmount(rows)>>

\* COALESCE(x, 0)
Coalesce(x) == IF x = << >> THEN 0 ELSE x[1]

\* AVG(amount) as the fraction <<sum, count>>; COALESCE(AVG(amount), 0) is
\* <<0, 1>> over no rows.
CoalesceAvg(rows) ==
    IF rows = {} THEN <<0, 1>> ELSE <<SumAmount(rows), Cardinality(rows)>>

\* Variant of OrderSummary: SUM(amount) without COALESCE, NULL over no rows.
OrderSummaryNoCoalesce(date) ==
    [TotalOrders |-> Cardinality(AnalysisRows(date)),
     TotalAmount |-> SqlSum(AnalysisRows(date))]

\* getOrderSummary: COUNT(*) and COALESCE(SUM(amount), 0) of the rows of the
\* date.  TotalAmount is <<the amount>>, or NULL.
OrderSummary(date) ==
    [TotalOrders |-> Cardinality(AnalysisRows(date)),
     TotalAmount |-> <<Coalesce(SqlSum(AnalysisRows(date)))>>]

\* COUNT(*), COALESCE(SUM(amount), 0), COALESCE(AVG(amount), 0) of one group.
GroupAggregates(rows) ==
    [OrderCount  |-> Cardinality(rows),
     TotalAmount |-> Coalesce(SqlSum(rows)),
     AvgAmount   |-> CoalesceAvg(rows)]

\* Variant of HourlyGroups: every hour carries the aggregates of the whole
\* date.
RECURSIVE HourlyGroupsOfWholeDate(_, _)
HourlyGroupsOfWholeDate(rows, hours) ==
    IF hours = {} THEN << >>
    ELSE LET h == CHOOSE h \in hours : \A k \in hours : h <= k
             g == GroupAggregates(rows)
         IN  << [Hour |-> h, OrderCount |-> g.OrderCount,
                 TotalAmount |-> g.TotalAmount, AvgAmount |-> g.AvgAmount] >>
             \o HourlyGroupsOfWholeDate(rows, hours \ {h})

\* getHourlyBreakdown: GROUP BY local_hour ORDER BY local_hour.
RECURSIVE HourlyGroups(_, _)
HourlyGroups(rows, hours) ==
    IF hours = {} THEN << >>
    ELSE LET h == CHOOSE h \in hours : \A k \in hours : h <= k
             g == GroupAggregates({ r \in rows : r.local_hour = h })
         IN  << [Hour |-> h, OrderCount |-> g.OrderCount,
                 TotalAmount |-> g.TotalAmount, AvgAmount |-> g.AvgAmount] >>
             \o HourlyGroups(rows, hours \ {h})

HourlyBreakdown(date) ==
    HourlyGroups(AnalysisRows(date), { r.local_hour : r \in AnalysisRows(date) })

\* ORDER BY total_amount DESC: every ordering of the groups the sort key
\* allows (groups with equal totals come in any order).
RECURSIVE OrderByTotalAmountDesc(_)
OrderByTotalAmountDesc(groups) ==
    IF groups = {} THEN { << >> }
    ELSE UNION { { <<g>> \o rest : rest \in OrderByTotalAmountDesc(groups \ {g}) } :
                 g \in { g \in groups :
                            \A h \in groups : g.TotalAmount >= h.TotalAmount } }

\* getTimezoneStats: GROUP BY timezone (one country per zone in the tables
\* of the model) ORDER BY total_amount DESC.
TimezoneStatsGroups(date) ==
    { LET g == GroupAggregates({ r \in AnalysisRows(date) : r.timezone = z })
      IN  [Timezone |-> z, OrderCount |-> g.OrderCount,
           TotalAmount |-> g.TotalAmount, AvgAmount |-> g.AvgAmount] :
      z \in { r.timezone : r \in AnalysisRows(date) } }

TimezoneStats(date) == OrderByTotalAmountDesc(TimezoneStatsGroups(date))

\* getTopMerchants: GROUP BY merchant_id, merchant_name, timezone.
TopMerchantsGroups(date) ==
    { LET g == GroupAggregates({ r \in AnalysisRows(date) : r.merchant_id = id })
      IN  [MerchantID |-> id,
           Timezone |-> (CHOOSE r \in AnalysisRows(date) : r.merchant_id = id).timezone,
           OrderCount |-> g.OrderCount,
           TotalAmount |-> g.TotalAmount, AvgAmount |-> g.AvgAmount] :
      id \in { r.merchant_id : r \in AnalysisRows(date) } }

\* Variant of TopMerchants: LIMIT 1.
TopMerchantsLimitOne(date) ==
    { LimitOffset(s, 1, 0) : s \in OrderByTotalAmountDesc(TopMerchantsGroups(date)) }

\* ... ORDER BY total_amount DESC LIMIT 10
TopMerchants(date) ==
    { LimitOffset(s, TopLimit, 0) :
        s \in OrderByTotalAmountDesc(TopMerchantsGroups(date)) }

\* The four queries of GetAnalysisData in program order; the error of a step
\* is returned wrapped in a message that names the step.
AnalysisSteps ==
    << "getOrderSummary", "getHourlyBreakdown", "getTimezoneStats",
       "getTopMerchants" >>

\* Variant of GetAnalysisDataCall: a failed step does not end the call, the
\* remaining queries are sent before the error is returned.
GetAnalysisDataCallRunsAll(date, okCount) ==
    /\ result.op = "none"
    /\ \E tz \in TimezoneStats(date), top \in TopMerchants(date) :
          result' =
            IF ~DateParseOK(date)
            THEN [op |-> "GetAnalysisData", err |-> "InvalidDateFormat",
                  value |-> Nil, arg |-> date, queries |-> 0, step |-> ""]
            ELSE IF okCount < 4
            THEN [op |-> "GetAnalysisData", err |-> "QueryFailed",
                  value |-> Nil, arg |-> date, queries |-> Len(AnalysisSteps),
                  step |-> AnalysisSteps[okCount + 1]]
            ELSE IF OrderSummary(date).TotalAmount = << >>
            THEN [op |-> "GetAnalysisData", err |-> "ScanFailed",
                  value |-> Nil, arg |-> date, queries |-> 1,
                  step |-> AnalysisSteps[1]]
            ELSE [op |-> "GetAnalysisData", err |-> Nil,
                  value |-> [Date            |-> date,
                             TotalOrders     |-> OrderSummary(date).TotalOrders,
                             TotalAmount     |-> OrderSummary(date).TotalAmount[1],
                             HourlyBreakdown |-> HourlyBreakdown(date),
                             TimezoneStats   |-> tz,
                             TopMerchants    |-> top],
                  arg |-> date, queries |-> 4, step |-> ""]
    /\ UNCHANGED <<dim_merchant, dws_orders>>

\* TimezoneService.GetAnalysisData(date).  The call sends four queries one
\* after the other; okCount is the number of them that succeed (4: all).
GetAnalysisDataCall(date, okCount) ==
    /\ result.op = "none"
    /\ \E tz \in TimezoneStats(date), top \in TopMerchants(date) :
          result' =
            IF ~DateParseOK(date)
            THEN [op |-> "GetAnalysisData", err |-> "InvalidDateFormat",
                  value |-> Nil, arg |-> date, queries |-> 0, step |-> ""]
            ELSE IF okCount < 4
            THEN [op |-> "GetAnalysisData", err |-> "QueryFailed",
                  value |-> Nil, arg |-> date, queries |-> okCount + 1,
                  step |-> AnalysisSteps[okCount + 1]]
            ELSE IF OrderSummary(date).TotalAmount = << >>
            THEN [op |-> "GetAnalysisData", err |-> "ScanFailed",
                  value |-> Nil, arg |-> date, queries |-> 1,
                  step |-> AnalysisSteps[1]]
            ELSE [op |-> "GetAnalysisData", err |-> Nil,
                  value |-> [Date            |-> date,
                             TotalOrders     |-> OrderSummary(date).TotalOrders,
                             TotalAmount     |-> OrderSummary(date).TotalAmount[1],
                             HourlyBreakdown |-> HourlyBreakdown(date),
                             TimezoneStats   |-> tz,
                             TopMerchants    |-> top],
                  arg |-> date, queries |-> 4, step |-> ""]
    /\ UNCHANGED <<dim_merchant, dws_orders>>

\* The date strings of the requests: the local date of every stored order,
\* a date with no order (2024-01-01), and three strings time.Parse rejects.
DateStrings ==
    { DateString("date", r.local_date[2], r.local_date[3]) :
        r \in dws_orders_analysis_view } \cup
    { DateString("date", 1, 1),
      DateString("datetime", 8, 19),
      DateString("date", 13, 1),
      DateString("date", 2, 30) }

GetAnalysisData ==
    \E date \in DateStrings, okCount \in 0..4 : GetAnalysisDataCall(date, okCount)

(* -------------------------- GetTimezoneDemo ---------------------------- *)

\* Variant of DemoInstant: noon of the same day.
DemoInstantAtNoon == Utc(8, 19, 12, 0)

\* utcTime := time.Date(2024, 8, 19, 0, 0, 0, 0, time.UTC)
DemoInstant == Utc(8, 19, 0, 0)

\* a < b for dates; the code compares the texts "2006-01-02", whose order is
\* the order of the dates.
DateBefore(a, b) ==
    \/ a[1] < b[1]
    \/ a[1] = b[1] /\ a[2] < b[2]
    \/ a[1] = b[1] /\ a[2] = b[2] /\ a[3] < b[3]

\* TO_CHAR(ts, 'TZ') of a timestamp without time zone: the empty text.  A
\* text is the sequence of its characters.
ToCharTZ(local) == << >>

\* strconv.Atoi of a two-character text: <<n>>, or the empty tuple on error.
Atoi2(txt) ==
    LET digit(c) ==
            CASE c = "0" -> 0 [] c = "1" -> 1 [] c = "2" -> 2 [] c = "3" -> 3
              [] c = "4" -> 4 [] c = "5" -> 5 [] c = "6" -> 6 [] c = "7" -> 7
              [] c = "8" -> 8 [] c = "9" -> 9 [] OTHER -> -1
    IN  IF digit(txt[1]) >= 0 /\ digit(txt[2]) >= 0
        THEN << 10 * digit(txt[1]) + digit(txt[2]) >>
        ELSE << >>

\* parseTimezoneOffset(offset): <<hours>>, or the empty tuple on error.
parseTimezoneOffset(offset) ==
    IF Len(offset) < 3 THEN << >>
    ELSE LET sign == IF offset[1] = "-" THEN -1 ELSE 1
             rest == IF offset[1] \in {"-", "+"} THEN Tail(offset) ELSE offset
         IN  IF Atoi2(SubSeq(rest, 1, 2)) = << >> THEN << >>
             ELSE << sign * Atoi2(SubSeq(rest, 1, 2))[1] >>

\* Variant of DemoIsPrevDay: the local date is not after the UTC date.
DemoIsPrevDayOrSame(localDate, utcDate) == ~DateBefore(utcDate, localDate)

\* conversion.LocalDate > utcDate, and conversion.LocalDate < utcDate in the
\* else branch.
DemoIsNextDay(localDate, utcDate) == DateBefore(utcDate, localDate)
DemoIsPrevDay(localDate, utcDate) == DateBefore(localDate, utcDate)

\* One scanned row of the demo query for merchant m, with the flags the loop
\* body sets.
DemoConversion(m) ==
    LET local   == AtTimeZone(DemoInstant, m.timezone)
        utcDate == DateOf(DemoInstant)
        next    == DemoIsNextDay(DateOf(local), utcDate)
    IN  [Timezone  |-> m.timezone,
         LocalTime |-> <<DateOf(local), ExtractHour(local), ExtractMinute(local)>>,
         LocalDate |-> DateOf(local),
         Offset    |-> ToCharTZ(local),
         IsNextDay |-> next,
         IsPrevDay |-> ~next /\ DemoIsPrevDay(DateOf(local), utcDate)]

\* The counters of the scan loop after the first n conversions.
RECURSIVE DemoLoop(_, _)
DemoLoop(convs, n) ==
    IF n = 0
    THEN [nextDayCount |-> 0, sameDayCount |-> 0, prevDayCount |-> 0,
          minOffset |-> 24, maxOffset |-> -24]
    ELSE LET acc == DemoLoop(convs, n - 1)
             c   == convs[n]
             off == parseTimezoneOffset(c.Offset)
         IN  [nextDayCount |-> acc.nextDayCount + (IF c.IsNextDay THEN 1 ELSE 0),
              prevDayCount |-> acc.prevDayCount + (IF c.IsPrevDay THEN 1 ELSE 0),
              sameDayCount |->
                 acc.sameDayCount + (IF ~c.IsNextDay /\ ~c.IsPrevDay THEN 1 ELSE 0),
              minOffset |->
                 IF off # << >> /\ off[1] < acc.minOffset THEN off[1] ELSE acc.minOffset,
              maxOffset |->
                 IF off # << >> /\ off[1] > acc.maxOffset THEN off[1] ELSE acc.maxOffset]

\* TimezoneService.GetTimezoneDemo().  dbOk is whether the query succeeds at
\* the database.
GetTimezoneDemoCall(dbOk) ==
    /\ result.op = "none"
    /\ \E q \in MerchantsByTimezone :
          result' =
            IF ~dbOk
            THEN [op |-> "GetTimezoneDemo", err |-> "QueryFailed",
                  value |-> Nil, arg |-> Nil, queries |-> 1]
            ELSE LET convs == [i \in 1..Len(q) |-> DemoConversion(q[i])]
                     acc   == DemoLoop(convs, Len(convs))
                 IN  [op |-> "GetTimezoneDemo", err |-> Nil,
                      value |-> [UTCTime   |-> DemoInstant,
                                 Timezones |-> convs,
                                 Summary   |-> [TotalTimezones |-> Len(convs),
                                                NextDayCount   |-> acc.nextDayCount,
                                                SameDayCount   |-> acc.sameDayCount,
                                                PrevDayCount   |-> acc.prevDayCount,
                                                MinOffset      |-> acc.minOffset,
                                                MaxOffset      |-> acc.maxOffset]],
                      arg |-> Nil, queries |-> 1]
    /\ UNCHANGED <<dim_merchant, dws_orders>>

GetTimezoneDemo == \E dbOk \in BOOLEAN : GetTimezoneDemoCall(dbOk)

(* ----------------------- INSERT INTO dim_merchant ---------------------- *)

\* The timezone texts of the inserts: the zone names of the model, a text of
\* the shape Area/Location that names no zone, a word without "/", "utc" in
\* lower case, and an area without location.
TimezoneTexts == Zones \cup {"Mars/Olympus", "Nowhere", "utc", "Asia/"}

\* The characters of a timezone text.
Spelling(name) ==
    CASE name = "America/Bogota" ->
            <<"A", "m", "e", "r", "i", "c", "a", "/", "B", "o", "g", "o",
              "t", "a">>
      [] name = "America/New_York" ->
            <<"A", "m", "e", "r", "i", "c", "a", "/", "N", "e", "w", "_",
              "Y", "o", "r", "k">>
      [] name = "America/Sao_Paulo" ->
            <<"A", "m", "e", "r", "i", "c", "a", "/", "S", "a", "o", "_",
              "P", "a", "u", "l", "o">>
      [] name = "Asia/Kolkata" ->
            <<"A", "s", "i", "a", "/", "K", "o", "l", "k", "a", "t", "a">>
      [] name = "Asia/Tokyo" ->
            <<"A", "s", "i", "a", "/", "T", "o", "k", "y", "o">>
      [] name = "Pacific/Auckland" ->
            <<"P", "a", "c", "i", "f", "i", "c", "/", "A", "u", "c", "k",
              "l", "a", "n", "d">>
      [] name = "Pacific/Kiritimati" ->
            <<"P", "a", "c", "i", "f", "i", "c", "/", "K", "i", "r", "i",
              "t", "i", "m", "a", "t", "i">>
      [] name = "Pacific/Tongatapu" ->
            <<"P", "a", "c", "i", "f", "i", "c", "/", "T", "o", "n", "g",
              "a", "t", "a", "p", "u">>
      [] name = "UTC" ->
            <<"U", "T", "C">>
      [] name = "Mars/Olympus" ->
            <<"M", "a", "r", "s", "/", "O", "l", "y", "m", "p", "u", "s">>
      [] name = "Nowhere" ->
            <<"N", "o", "w", "h", "e", "r", "e">>
      [] name = "utc" ->
            <<"u", "t", "c">>
      [] name = "Asia/" ->
            <<"A", "s", "i", "a", "/">>

\* [A-Za-z]
Letters ==
    {
      "A", "B", "C", "D", "E", "F", "G", "H", "I", "J", "K", "L", "M", "N",
      "O", "P", "Q", "R", "S", "T", "U", "V", "W", "X", "Y", "Z",
      "a", "b", "c", "d", "e", "f", "g", "h", "i", "j", "k", "l", "m", "n",
      "o", "p", "q", "r", "s", "t", "u", "v", "w", "x", "y", "z" }

\* The parts of a text between its "/" characters.
RECURSIVE SplitOnSlash(_)
SplitOnSlash(txt) ==
    IF \A i \in 1..Len(txt) : txt[i] # "/" THEN <<txt>>
    ELSE LET k == CHOOSE i \in 1..Len(txt) :
                    txt[i] = "/" /\ \A j \in 1..(i - 1) : txt[j] # "/"
         IN  <<SubSeq(txt, 1, k - 1)>> \o SplitOnSlash(SubSeq(txt, k + 1, Len(txt)))

\* chk_timezone_format:
\* timezone ~ '^[A-Za-z]+/[A-Za-z_]+(/[A-Za-z_]+)?$' OR timezone = 'UTC'
chk_timezone_format(name) ==
    LET parts == SplitOnSlash(Spelling(name))
    IN  \/ /\ Len(parts) \in {2, 3}
           /\ Len(parts[1]) > 0
           /\ \A i \in 1..Len(parts[1]) : parts[1][i] \in Letters
           /\ \A p \in 2..Len(parts) :
                 /\ Len(parts[p]) > 0
                 /\ \A i \in 1..Len(parts[p]) : parts[p][i] \in Letters \cup {"_"}
        \/ name = "UTC"

\* INSERT INTO dim_merchant: the row gets the next merchant_id and the given
\* timezone, or the column default 'UTC' when none is given; the insert fails
\* when the CHECK constraint rejects the timezone.  The table of the model
\* holds at most MaxMerchants + 1 rows.
InsertMerchantCall(name, given) ==
    LET timezone == IF given THEN name ELSE "UTC"
    IN  /\ result.op = "none"
        /\ Len(dim_merchant) <= MaxMerchants
        /\ IF chk_timezone_format(timezone)
           THEN /\ dim_merchant' =
                     Append(dim_merchant, MerchantRow(Len(dim_merchant) + 1, timezone))
                /\ result' = [op |-> "InsertMerchant", err |-> Nil, value |-> Nil,
                              arg |-> timezone, queries |-> 1]
           ELSE /\ dim_merchant' = dim_merchant
                /\ result' = [op |-> "InsertMerchant", err |-> "CheckViolation",
                              value |-> Nil, arg |-> timezone, queries |-> 1]
        /\ UNCHANGED dws_orders

InsertMerchant ==
    \E name \in TimezoneTexts, given \in BOOLEAN : InsertMerchantCall(name, given)

(* ------------------------- initial states ------------------------------ *)

\* The anchor instants of the single-record tables: every half hour of
\* NumDays days from Friday 2024-08-16T00:00Z.
WindowInstants ==
    { Utc(8, 16 + k, hh, mi) : k \in 0..(NumDays - 1), hh \in 0..23, mi \in {0, 30} }

\* The zones and anchor instants of the tables with several rows.
BatchZones == {"Asia/Tokyo", "America/Sao_Paulo"}
BatchInstants == { Utc(8, 19, 23, 30), Utc(8, 20, 2, 0) }

\* dim_merchant with n rows over the zones zs.
MerchantTables(n, zs) ==
    { [i \in 1..n |-> MerchantRow(i, f[i])] : f \in [1..n -> zs] }

\* dws_orders with k rows referencing merchants 1..n, anchored in ts.
OrderTables(k, n, ts) ==
    { [i \in 1..k |-> OrderRow(i, f[i][1], f[i][2], 100, "paid")] :
        f \in [1..k -> (1..n) \X ts] }

\* No call is in progress.  queries counts the queries a call sent to the
\* database.
NoResult ==
    [op |-> "none", err |-> Nil, value |-> Nil, arg |-> Nil, queries |-> 0]

\* One merchant in any zone with one order anchored at any window instant.
InitSingle ==
    /\ dim_merchant \in MerchantTables(1, Zones)
    /\ dws_orders \in OrderTables(1, 1, WindowInstants)

\* Up to MaxMerchants merchants and up to MaxOrders orders.
InitBatch ==
    \E n \in 0..MaxMerchants, k \in 0..MaxOrders :
        /\ n = 0 => k = 0
        /\ dim_merchant \in MerchantTables(n, BatchZones)
        /\ dws_orders \in OrderTables(k, n, BatchInstants)

\* Up to MaxMerchants merchants in any zones, and no order yet.
InitMerchantsOnly ==
    \E n \in 0..MaxMerchants :
        /\ dim_merchant \in MerchantTables(n, Zones)
        /\ dws_orders = << >>

\* The zones with daylight saving time in 2024, and the instants half an
\* hour before and at each of their transitions: America/New_York at
\* 2024-03-10T07:00Z and 2024-11-03T06:00Z, Pacific/Auckland at
\* 2024-04-06T14:00Z and 2024-09-28T14:00Z.
DstZones == {"America/New_York", "Pacific/Auckland"}
DstInstants ==
    { Utc(3, 10, 6, 30), Utc(3, 10, 7, 0), Utc(11, 3, 5, 30), Utc(11, 3, 6, 0),
      Utc(4, 6, 13, 30), Utc(4, 6, 14, 0), Utc(9, 28, 13, 30), Utc(9, 28, 14, 0) }

\* One merchant in a zone with daylight saving time and two orders anchored
\* around the transitions.
InitDst ==
    /\ dim_merchant \in MerchantTables(1, DstZones)
    /\ dws_orders \in OrderTables(2, 1, DstInstants)

\* respondJSON: the handler writes the result of the call to the client and
\* the request is over.
Respond ==
    /\ result.op # "none"
    /\ result' = NoResult
    /\ UNCHANGED <<dim_merchant, dws_orders>>

Init ==
    /\ InitSingle \/ InitBatch \/ InitMerchantsOnly \/ InitDst
    /\ result = NoResult

Next == GetOrders \/ CompareTimezones \/ Respond

Spec == Init /\ [][Next]_vars

(* ---------------- tables with amounts and statuses --------------------- *)

\* The zones of the tables the aggregations are run on, and the
\* <<order_time_utc, order_amount, order_status>> of their orders.
AnalysisZones == {"UTC", "Asia/Tokyo"}
AnalysisOrderKinds ==
    { <<Utc(8, 19, 10, 0), 100, "paid">>,
      <<Utc(8, 19, 23, 30), 200, "paid">>,
      <<Utc(8, 19, 10, 0), 100, "cancelled">> }

\* dws_orders with k rows referencing merchants 1..n.
AnalysisOrderTables(k, n) ==
    { [i \in 1..k |-> OrderRow(i, f[i][1], f[i][2][1], f[i][2][2], f[i][2][3])] :
        f \in [1..k -> (1..n) \X AnalysisOrderKinds] }

\* Up to MaxMerchants merchants and up to MaxOrders orders of any amount and
\* status.
InitAnalysisBatch ==
    \E n \in 1..MaxMerchants, k \in 0..MaxOrders :
        /\ dim_merchant \in MerchantTables(n, AnalysisZones)
        /\ dws_orders \in AnalysisOrderTables(k, n)

InitAnalysis ==
    /\ InitAnalysisBatch \/ InitMerchantsOnly
    /\ result = NoResult

NextAnalysis ==
    GetAnalysisData \/ GetTimezoneDemo \/ CompareTimezones \/ Respond

SpecAnalysis == InitAnalysis /\ [][NextAnalysis]_vars

(* ------------------------ the merchant registry ----------------------- *)

InitRegistry ==
    /\ InitMerchantsOnly
    /\ result = NoResult

NextRegistry == InsertMerchant \/ Respond

SpecRegistry == InitRegistry /\ [][NextRegistry]_vars

(* -------------- more merchants than the top-merchants limit ------------ *)

\* TopLimit + 1 merchants in UTC, each with one paid order of its own amount
\* anchored on 2024-08-19 or on 2024-08-20.
InitManyMerchants ==
    /\ dim_merchant = [i \in 1..(TopLimit + 1) |-> MerchantRow(i, "UTC")]
    /\ dws_orders \in
          { [i \in 1..(TopLimit + 1) |-> OrderRow(i, i, f[i], 100 * i, "paid")] :
              f \in [1..(TopLimit + 1) -> { Utc(8, 19, 8, 0), Utc(8, 20, 8, 0) }] }
    /\ result = NoResult

NextTopMerchants == GetAnalysisData \/ Respond

SpecTopMerchants == InitManyMerchants /\ [][NextTopMerchants]_vars

(* ----------------------------- GetMerchants ---------------------------- *)

\* The ways the query of GetMerchants ends: rows, an error of db.Query, of
\* rows.Scan or of rows.Err.
MerchantsOutcomes == {"ok", "QueryFailed", "ScanFailed", "RowsFailed"}

\* GetMerchants writing its listing back to the table.
GetMerchantsCallStoring(outcome) ==
    /\ result.op = "none"
    /\ \E q \in Perms(Merchants) :
          /\ result' = [op |-> "GetMerchants",
                        err |-> IF outcome = "ok" THEN Nil ELSE outcome,
                        value |-> IF outcome = "ok" THEN q ELSE Nil,
                        arg |-> Nil, queries |-> 1]
          /\ dim_merchant' = IF outcome = "ok" THEN q ELSE dim_merchant
    /\ UNCHANGED dws_orders

\* SELECT ... FROM dim_merchant ORDER BY name: every row once.  The name
\* column is not among the modelled columns, so the rows come in any order.
GetMerchantsCall(outcome) ==
    /\ result.op = "none"
    /\ \E q \in Perms(Merchants) :
          result' =
            IF outcome # "ok"
            THEN [op |-> "GetMerchants", err |-> outcome, value |-> Nil,
                  arg |-> Nil, queries |-> 1]
            ELSE [op |-> "GetMerchants", err |-> Nil, value |-> q,
                  arg |-> Nil, queries |-> 1]
    /\ UNCHANGED <<dim_merchant, dws_orders>>

GetMerchants == \E outcome \in MerchantsOutcomes : GetMerchantsCall(outcome)

(* ------------------------------ HealthCheck ---------------------------- *)

\* The relations of the schema, and the catalogs a database can have: the
\* foreign key of dws_orders needs dim_merchant, the view needs both tables.
Relations == {"dim_merchant", "dws_orders", "dws_orders_analysis_view"}
Catalogs ==
    { {}, {"dim_merchant"}, {"dim_merchant", "dws_orders"}, Relations }

\* A table that does not exist holds no row.
CatalogFitsTables(catalog) ==
    /\ "dim_merchant" \notin catalog => dim_merchant = << >>
    /\ "dws_orders" \notin catalog => dws_orders = << >>

\* CheckTableExists, CheckViewExists: EXISTS over information_schema.
CheckTableExists(catalog, tableName) == tableName \in catalog
CheckViewExists(catalog, viewName) == viewName \in catalog

\* GetTableRowCount: SELECT COUNT(*) FROM tableName.
GetTableRowCount(tableName) ==
    IF tableName = "dim_merchant" THEN Len(dim_merchant) ELSE Len(dws_orders)

\* The checks of HealthCheck in program order: what each asks, the error it
\* returns when its call fails and the error it returns when the answer is
\* not the healthy one.
HealthChecks ==
    << [check |-> "Ping", on |-> "",
        failed |-> "PingFailed", unhealthy |-> "PingFailed"],
       [check |-> "CheckTableExists", on |-> "dim_merchant",
        failed |-> "CheckTableFailed dim_merchant",
        unhealthy |-> "TableMissing dim_merchant"],
       [check |-> "CheckTableExists", on |-> "dws_orders",
        failed |-> "CheckTableFailed dws_orders",
        unhealthy |-> "TableMissing dws_orders"],
       [check |-> "CheckViewExists", on |-> "dws_orders_analysis_view",
        failed |-> "CheckViewFailed", unhealthy |-> "ViewMissing"],
       [check |-> "GetTableRowCount", on |-> "dim_merchant",
        failed |-> "MerchantCountFailed", unhealthy |-> "MerchantTableEmpty"],
       [check |-> "GetTableRowCount", on |-> "dws_orders",
        failed |-> "OrderCountFailed", unhealthy |-> "OrderTableEmpty"] >>

\* The answer of check c when its call succeeds.
Healthy(c, catalog) ==
    CASE c.check = "Ping" -> TRUE
      [] c.check = "CheckTableExists" -> CheckTableExists(catalog, c.on)
      [] c.check = "CheckViewExists" -> CheckViewExists(catalog, c.on)
      [] c.check = "GetTableRowCount" -> GetTableRowCount(c.on) # 0

\* Variant of HealthCheckFrom: every check is run and the error of the last
\* failing one is returned.
RECURSIVE HealthCheckRunAll(_, _, _)
HealthCheckRunAll(i, failing, catalog) ==
    IF i > Len(HealthChecks) THEN [err |-> Nil, checks |-> i - 1]
    ELSE LET rest == HealthCheckRunAll(i + 1, failing, catalog)
         IN  IF rest.err # Nil THEN rest
             ELSE IF i \in failing
             THEN [err |-> HealthChecks[i].failed, checks |-> rest.checks]
             ELSE IF ~Healthy(HealthChecks[i], catalog)
             THEN [err |-> HealthChecks[i].unhealthy, checks |-> rest.checks]
             ELSE rest

\* HealthCheck from check i on: the calls in failing return an error.  The
\* result is the error returned and the number of checks performed.
RECURSIVE HealthCheckFrom(_, _, _)
HealthCheckFrom(i, failing, catalog) ==
    IF i > Len(HealthChecks) THEN [err |-> Nil, checks |-> i - 1]
    ELSE IF i \in failing
    THEN [err |-> HealthChecks[i].failed, checks |-> i]
    ELSE IF ~Healthy(HealthChecks[i], catalog)
    THEN [err |-> HealthChecks[i].unhealthy, checks |-> i]
    ELSE HealthCheckFrom(i + 1, failing, catalog)

\* The sets of failing calls of one HealthCheck: none, one, or two.
FailingCalls ==
    { f \in SUBSET (1..Len(HealthChecks)) : Cardinality(f) <= 2 }

HealthCheckCall(failing, catalog) ==
    /\ result.op = "none"
    /\ CatalogFitsTables(catalog)
    /\ LET r == HealthCheckFrom(1, failing, catalog)
       IN  result' = [op |-> "HealthCheck", err |-> r.err, value |-> Nil,
                      arg |-> [failing |-> failing, catalog |-> catalog],
                      queries |-> r.checks]
    /\ UNCHANGED <<dim_merchant, dws_orders>>

HealthCheck ==
    \E failing \in FailingCalls, catalog \in Catalogs :
        HealthCheckCall(failing, catalog)

(* -------------------- the six operations of the service ---------------- *)

\* The most orders of the tables the six operations are run on together.
MaxServiceOrders == 1

\* Up to MaxMerchants merchants with up to MaxServiceOrders orders of any of
\* the amounts and statuses, or empty tables.
InitService ==
    /\ \E n \in 0..MaxMerchants, k \in 0..MaxServiceOrders :
          /\ n = 0 => k = 0
          /\ dim_merchant \in MerchantTables(n, AnalysisZones)
          /\ dws_orders \in AnalysisOrderTables(k, n)
    /\ result = NoResult

NextService ==
    \/ GetMerchants
    \/ GetOrders
    \/ GetAnalysisData
    \/ CompareTimezones
    \/ GetTimezoneDemo
    \/ HealthCheck
    \/ Respond

SpecService == InitService /\ [][NextService]_vars

(* -------------------- ExecWithRetry, QueryWithRetry -------------------- *)

\* The bound of the retry loop: for i := 0; i < 3; i++.
MaxAttempts == 3

\* The errors db.Exec and db.Query can return.
DbErrors == {"connection refused", "deadlock detected", "timeout"}

\* fmt.Errorf("...: %w", err) of the retry functions.
RetryWrap(err) == "retried 3 times: " \o err

\* The retry functions and what a successful attempt of each returns.
RetryFunctions == {"ExecWithRetry", "QueryWithRetry"}
RetryValue(fn) == IF fn = "ExecWithRetry" THEN "sql.Result" ELSE "sql.Rows"

\* The entry of a retry function: i := 0, nothing attempted.  pc is the
\* position in the function, tried the errors of the attempts made, applied
\* how often the statement took effect, slept the seconds of time.Sleep.
RetryBegin(fn) ==
    /\ result.op = "none"
    /\ result' = [op |-> fn, err |-> Nil, value |-> Nil,
                  arg |-> [pc |-> "loop", i |-> 0, tried |-> << >>,
                           applied |-> 0, slept |-> 0],
                  queries |-> 0]
    /\ UNCHANGED <<dim_merchant, dws_orders>>

ExecWithRetry == RetryBegin("ExecWithRetry")
QueryWithRetry == RetryBegin("QueryWithRetry")

InRetry == result.op \in RetryFunctions

\* Variant of RetryAttempt: a successful attempt does not leave the loop.
RetryAttemptNoReturn(outcome) ==
    /\ InRetry
    /\ result.arg.pc = "loop"
    /\ result.arg.i < MaxAttempts
    /\ result' =
         IF outcome = "ok"
         THEN [result EXCEPT !.err = Nil, !.value = RetryValue(result.op),
                             !.queries = @ + 1, !.arg.applied = @ + 1,
                             !.arg.i = @ + 1]
         ELSE [result EXCEPT !.err = outcome, !.queries = @ + 1,
                             !.arg.tried = Append(@, outcome),
                             !.arg.slept = @ + result.arg.i + 1,
                             !.arg.i = @ + 1]
    /\ UNCHANGED <<dim_merchant, dws_orders>>

\* One pass of the loop body: the attempt, then either the return of its
\* result or the log line, the sleep of i+1 seconds and i++.
RetryAttempt(outcome) ==
    /\ InRetry
    /\ result.arg.pc = "loop"
    /\ result.arg.i < MaxAttempts
    /\ result' =
         IF outcome = "ok"
         THEN [result EXCEPT !.err = Nil, !.value = RetryValue(result.op),
                             !.queries = @ + 1, !.arg.applied = @ + 1,
                             !.arg.pc = "returned"]
         ELSE [result EXCEPT !.err = outcome, !.queries = @ + 1,
                             !.arg.tried = Append(@, outcome),
                             !.arg.slept = @ + result.arg.i + 1,
                             !.arg.i = @ + 1]
    /\ UNCHANGED <<dim_merchant, dws_orders>>

RetryAttempts == \E outcome \in {"ok"} \cup DbErrors : RetryAttempt(outcome)

\* The loop is over without a success: the error of the last attempt is
\* returned wrapped.
RetryExhausted ==
    /\ InRetry
    /\ result.arg.pc = "loop"
    /\ result.arg.i >= MaxAttempts
    /\ result' = [result EXCEPT !.err = RetryWrap(result.err),
                                !.arg.pc = "returned"]
    /\ UNCHANGED <<dim_merchant, dws_orders>>

\* The caller takes the returned values.
RetryReturn ==
    /\ InRetry
    /\ result.arg.pc = "returned"
    /\ result' = NoResult
    /\ UNCHANGED <<dim_merchant, dws_orders>>

InitRetry ==
    /\ InitMerchantsOnly
    /\ result = NoResult

NextRetry ==
    \/ ExecWithRetry
    \/ QueryWithRetry
    \/ RetryAttempts
    \/ RetryExhausted
    \/ RetryReturn

SpecRetry == InitRetry /\ [][NextRetry]_vars

\* db.Exec, db.Query and time.Sleep return, so a call that has begun takes
\* its next step.
FairSpecRetry ==
    SpecRetry /\ WF_vars(RetryAttempts) /\ WF_vars(RetryExhausted)

\* The tables always satisfy the schema.
TablesOK == SchemaOK

(* ======================================================================= *)
(* Claims                                                                  *)
(* ======================================================================= *)

\* The calendar arithmetic the claims are stated with, from the UTC side:
\* whether adding off minutes to the UTC wall clock of t leaves the UTC
\* calendar day (+1, -1) or not (0).
LocalDayShift(t, off) ==
    IF (t % 1440) + off >= 1440 THEN 1
    ELSE IF (t % 1440) + off < 0 THEN -1
    ELSE 0

\* The hour of the local wall clock, from the UTC hour and minute.
RefLocalHour(t, off) == (((t % 1440) + off + 1440) % 1440) \div 60

\* Day of week of the UTC day of t, counted from Friday 2024-08-16 (0 = Sunday).
RefUtcDow(t) == (5 + (t \div 1440) - (DaysBeforeMonth(8) + 15) + 700) % 7

\* Day of week of the local day.
RefLocalDow(t, off) == (RefUtcDow(t) + LocalDayShift(t, off) + 7) % 7

\* The successful results of the two operations.
GetOrdersReturned == result.op = "GetOrders" /\ result.err = Nil
CompareReturned == result.op = "CompareTimezones" /\ result.err = Nil

\* The items of a returned comparison, and the instant they were computed at.
ComparedItems ==
    { result.value.Comparisons[i] : i \in 1..Len(result.value.Comparisons) }
ComparedInstant == ParsedInstant(result.arg)

\* The orders GetOrders returned.
ReturnedOrders == { result.value[i] : i \in 1..Len(result.value) }

\* C1: for every UTC instant and tenant zone, local_date is the calendar date
\* of the local wall clock (instant + zone offset at that instant), not the
\* UTC date: it is the UTC date moved by one day exactly when the offset
\* carries the UTC wall clock across midnight; 2024-08-19T23:30Z is
\* 2024-08-20 at UTC+9 and 2024-08-19 at UTC-5.
C1_LocalDateIsLocalCalendarDate ==
    /\ \A r \in dws_orders_analysis_view :
          LET t   == r.order_time_utc
              off == ZoneOffset(r.timezone, t)
          IN  /\ r.local_date = CivilFrom((t \div 1440) + LocalDayShift(t, off), 1)
              /\ (t = Utc(8, 19, 23, 30) /\ off = 540) => r.local_date = <<2024, 8, 20>>
              /\ (t = Utc(8, 19, 23, 30) /\ off = -300) => r.local_date = <<2024, 8, 19>>
    /\ GetOrdersReturned =>
          \A o \in ReturnedOrders :
              LET off == ZoneOffset(o.Timezone, o.OrderTimeUTC)
              IN  o.LocalDate =
                    CivilFrom((o.OrderTimeUTC \div 1440)
                                + LocalDayShift(o.OrderTimeUTC, off), 1)

\* C1 witness: GetOrders returned the order anchored at 2024-08-19T23:30Z of
\* a merchant at UTC+9 with local date 2024-08-20.
C1_Witness ==
    /\ GetOrdersReturned
    /\ \E o \in ReturnedOrders :
          /\ o.OrderTimeUTC = Utc(8, 19, 23, 30)
          /\ o.Timezone = "Asia/Tokyo"
          /\ o.LocalDate = <<2024, 8, 20>>

\* C2: for a tenant in America/Sao_Paulo (UTC-3, no DST in 2024) the record
\* anchored at 2024-08-19T23:30Z has local date 2024-08-19 and local hour 20,
\* and the record anchored at 2024-08-20T02:00Z has local date 2024-08-19 and
\* local hour 23; both carry the offset -3 h, so the second local date is the
\* day before its UTC date.
C2_SaoPauloScenario ==
    /\ \A r \in dws_orders_analysis_view :
          r.timezone = "America/Sao_Paulo" =>
            /\ r.order_time_utc = Utc(8, 19, 23, 30) =>
                  /\ r.local_date = <<2024, 8, 19>>
                  /\ r.local_hour = 20
                  /\ r.timezone_offset = -10800
            /\ r.order_time_utc = Utc(8, 20, 2, 0) =>
                  /\ r.local_date = <<2024, 8, 19>>
                  /\ r.local_hour = 23
                  /\ r.timezone_offset = -10800
    /\ GetOrdersReturned =>
          \A o \in ReturnedOrders :
              o.Timezone = "America/Sao_Paulo" =>
                /\ o.OrderTimeUTC = Utc(8, 19, 23, 30) =>
                      o.LocalDate = <<2024, 8, 19>> /\ o.LocalHour = 20
                /\ o.OrderTimeUTC = Utc(8, 20, 2, 0) =>
                      o.LocalDate = <<2024, 8, 19>> /\ o.LocalHour = 23

\* C2 witness: GetOrders returned both records of a Sao Paulo merchant, the
\* second with a local date before its UTC date.
C2_Witness ==
    /\ GetOrdersReturned
    /\ \E o1, o2 \in ReturnedOrders :
          /\ o1.Timezone = "America/Sao_Paulo"
          /\ o2.MerchantID = o1.MerchantID
          /\ o1.OrderTimeUTC = Utc(8, 19, 23, 30)
          /\ o2.OrderTimeUTC = Utc(8, 20, 2, 0)
          /\ o1.LocalHour = 20
          /\ o2.LocalHour = 23
          /\ o2.LocalDate = <<2024, 8, 19>>

\* C3 (as claimed): every hour difference CompareTimezones reports lies in
\* the half-open range (-12, +12].
C3_HourDiffInHalfOpenRange ==
    CompareReturned =>
        \A item \in ComparedItems :
            -12 < item.TimeDifference /\ item.TimeDifference <= 12

\* C4: for a tenant whose zone is 13 hours ahead of UTC, at every instant
\* given in UTC, CompareTimezones reports -11 and never +13.
C4_Plus13ReportsMinus11 ==
    (CompareReturned /\ result.arg.off = 0) =>
        \A item \in ComparedItems :
            ZoneOffset(item.Timezone, ComparedInstant) = 780 =>
                item.TimeDifference = -11

\* C4 witness: a comparison whose raw difference (local hour - UTC hour) is
\* 13 was reported as -11.
C4_Witness ==
    /\ CompareReturned
    /\ result.arg.off = 0
    /\ \E item \in ComparedItems :
          /\ ZoneOffset(item.Timezone, ComparedInstant) = 780
          /\ item.Hour - result.arg.hh = 13
          /\ item.TimeDifference = -11

C6_WeekendExcludesBusinessHour ==
    /\ \A r \in dws_orders_analysis_view : ~(r.is_weekend /\ r.is_business_hour)
    /\ CompareReturned =>
          \A item \in ComparedItems : ~(item.IsWeekend /\ item.IsBusinessHour)

\* C7 (as claimed): the flags CompareTimezones reports for a tenant equal the
\* flags the view reports for a record of that tenant anchored at the same
\* instant.
C7_FlagsAgreeAcrossConsumers ==
    CompareReturned =>
        \A item \in ComparedItems, r \in dws_orders_analysis_view :
            (r.merchant_id = item.MerchantName
               /\ r.order_time_utc = ComparedInstant)
            => /\ r.is_weekend = item.IsWeekend
               /\ r.is_business_hour = item.IsBusinessHour

\* C8 (as claimed): is_business_hour is true exactly when the local day of
\* week is Monday..Friday and the local hour is in 9..18, wherever the flag
\* is reported.
C8_BusinessHourIsWeekday9To18 ==
    /\ \A r \in dws_orders_analysis_view :
          LET off == ZoneOffset(r.timezone, r.order_time_utc)
          IN  r.is_business_hour <=>
                /\ RefLocalDow(r.order_time_utc, off) \in 1..5
                /\ RefLocalHour(r.order_time_utc, off) \in 9..18
    /\ CompareReturned =>
          \A item \in ComparedItems :
              LET off == ZoneOffset(item.Timezone, ComparedInstant)
              IN  item.IsBusinessHour <=>
                    /\ RefLocalDow(ComparedInstant, off) \in 1..5
                    /\ RefLocalHour(ComparedInstant, off) \in 9..18

\* C9: is_weekend is true exactly when the day of week of the local wall
\* clock (0 = Sunday ... 6 = Saturday) is 0 or 6, in the view and in
\* CompareTimezones; Friday 20:00 UTC at UTC+9 (Saturday locally) is a
\* weekend and Sunday 20:00 UTC at UTC+9 (Monday locally) is not.
C9_WeekendIsLocalSaturdaySunday ==
    /\ \A r \in dws_orders_analysis_view :
          LET t   == r.order_time_utc
              off == ZoneOffset(r.timezone, t)
          IN  /\ r.local_day_of_week = RefLocalDow(t, off)
              /\ r.is_weekend <=> RefLocalDow(t, off) \in {0, 6}
              /\ (t = Utc(8, 16, 20, 0) /\ off = 540) => r.is_weekend
              /\ (t = Utc(8, 18, 20, 0) /\ off = 540) => ~r.is_weekend
    /\ CompareReturned =>
          \A item \in ComparedItems :
              item.IsWeekend <=>
                RefLocalDow(ComparedInstant,
                            ZoneOffset(item.Timezone, ComparedInstant)) \in {0, 6}

\* C9 witness: GetOrders returned an order anchored on Friday 20:00 UTC that
\* is Saturday in its zone and flagged as weekend.
C9_Witness ==
    /\ GetOrdersReturned
    /\ \E o \in ReturnedOrders :
          /\ o.OrderTimeUTC = Utc(8, 16, 20, 0)
          /\ o.Timezone = "Asia/Tokyo"
          /\ o.LocalDayOfWeek = 6
          /\ o.IsWeekend

\* A GetOrders result that is the whole first page: no timezone filter, no
\* offset, and a limit that covers every stored order.
GetOrdersReturnedAll ==
    /\ GetOrdersReturned
    /\ result.arg.timezone = ""
    /\ result.arg.offset = 0
    /\ result.arg.limit >= Len(dws_orders)

\* The merchant row an order references.
TenantOf(o) == CHOOSE m \in Merchants : m.merchant_id = o.merchant_id

\* C11 (as claimed): on a batch whose records all reference a known tenant,
\* the projected output has one record per raw record, each computed from
\* that record and its tenant's zone, in the order of the input.
C11_ProjectionPreservesInputOrder ==
    GetOrdersReturnedAll =>
        /\ Len(result.value) = Len(dws_orders)
        /\ \A i \in 1..Len(dws_orders) :
              result.value[i].OrderID = dws_orders[i].order_id

\* C11 (amended): the view has exactly one row per stored order (none
\* dropped, none duplicated), each computed only from that order and the zone
\* of its tenant; GetOrders without filter, with offset 0 and a limit that
\* covers the table, returns exactly one record per stored order, ordered by
\* order_time_utc descending and not by input order.
C11_OneProjectedRecordPerRawRecord ==
    /\ Cardinality(dws_orders_analysis_view) = Len(dws_orders)
    /\ \A o \in Orders :
          \E r \in dws_orders_analysis_view :
              LET t   == o.order_time_utc
                  off == ZoneOffset(TenantOf(o).timezone, t)
              IN  /\ r.order_id = o.order_id
                  /\ r.order_time_utc = t
                  /\ r.amount = o.amount
                  /\ r.status = o.status
                  /\ r.merchant_id = o.merchant_id
                  /\ r.timezone = TenantOf(o).timezone
                  /\ r.local_date = CivilFrom((t \div 1440) + LocalDayShift(t, off), 1)
                  /\ r.local_hour = RefLocalHour(t, off)
                  /\ r.local_day_of_week = RefLocalDow(t, off)
                  /\ r.timezone_offset = off * 60
    /\ GetOrdersReturnedAll =>
          /\ Len(result.value) = Len(dws_orders)
          /\ \A o \in Orders :
                Cardinality({ i \in 1..Len(result.value) :
                                result.value[i].OrderID = o.order_id }) = 1
          /\ \A i, j \in 1..Len(result.value) :
                i < j => result.value[i].OrderTimeUTC >= result.value[j].OrderTimeUTC

\* C11 witness: GetOrders returned both orders of a two-order table held by
\* two tenants, the later one first although it was stored second.
C11_Witness ==
    /\ GetOrdersReturnedAll
    /\ Len(dws_orders) = 2
    /\ Len(dim_merchant) = 2
    /\ dws_orders[1].order_time_utc < dws_orders[2].order_time_utc
    /\ dws_orders[1].merchant_id # dws_orders[2].merchant_id
    /\ Len(result.value) = 2
    /\ result.value[1].OrderID = 2
    /\ result.value[2].OrderID = 1

\* The successful result of GetAnalysisData, and the view rows of its date.
AnalysisReturned == result.op = "GetAnalysisData" /\ result.err = Nil
ReturnedDateRows ==
    { r \in dws_orders_analysis_view :
        r.local_date = <<2024, result.arg.mo, result.arg.d>> }

\* The statuses of a completed order (order_status IN ('paid', 'shipped',
\* 'delivered') of the sales report queries).
CompletedStatuses == {"paid", "shipped", "delivered"}

\* The elements of a sequence.
Range(seq) == { seq[i] : i \in 1..Len(seq) }

\* C12 (as claimed): every group of GetAnalysisData (order summary, hourly
\* breakdown, timezone stats, top merchants) counts and sums only the
\* records whose status is paid, shipped or delivered.
C12_AggregatesCountCompletedOnly ==
    AnalysisReturned =>
        LET done == { r \in ReturnedDateRows : r.status \in CompletedStatuses }
        IN  /\ result.value.TotalOrders = Cardinality(done)
            /\ result.value.TotalAmount = SumAmount(done)
            /\ \A g \in Range(result.value.HourlyBreakdown) :
                  /\ g.OrderCount = Cardinality({ r \in done : r.local_hour = g.Hour })
                  /\ g.TotalAmount = SumAmount({ r \in done : r.local_hour = g.Hour })
            /\ \A g \in Range(result.value.TimezoneStats) :
                  /\ g.OrderCount = Cardinality({ r \in done : r.timezone = g.Timezone })
                  /\ g.TotalAmount = SumAmount({ r \in done : r.timezone = g.Timezone })
            /\ \A g \in Range(result.value.TopMerchants) :
                  /\ g.OrderCount =
                        Cardinality({ r \in done : r.merchant_id = g.MerchantID })
                  /\ g.TotalAmount =
                        SumAmount({ r \in done : r.merchant_id = g.MerchantID })

\* The sum of a sequence of numbers.
RECURSIVE SumSeq(_)
SumSeq(seq) == IF seq = << >> THEN 0 ELSE Head(seq) + SumSeq(Tail(seq))

\* The per-tenant sums and counts of the returned TopMerchants groups, added.
TopMerchantsAmount ==
    SumSeq([i \in 1..Len(result.value.TopMerchants) |->
              result.value.TopMerchants[i].TotalAmount])
TopMerchantsOrders ==
    SumSeq([i \in 1..Len(result.value.TopMerchants) |->
              result.value.TopMerchants[i].OrderCount])

\* The tenants that have a record on the date of the returned analysis.
ReturnedDateTenants == { r.merchant_id : r \in ReturnedDateRows }

\* C13 (as claimed): the sums of the returned TopMerchants groups add up to
\* TotalAmount and their counts add up to TotalOrders, for any set of records
\* of a local date.
C13_TopMerchantsSumToTotal ==
    AnalysisReturned =>
        /\ TopMerchantsAmount = result.value.TotalAmount
        /\ TopMerchantsOrders = result.value.TotalOrders

\* C13 (amended): when at most 10 tenants have records on the date, the sums
\* of the returned TopMerchants groups add up to TotalAmount and their counts
\* to TotalOrders; with more tenants only 10 groups are returned and their
\* sums and counts add up to less than the totals.
C13_TopMerchantsSumToTotalWithinLimit ==
    AnalysisReturned =>
        /\ Cardinality(ReturnedDateTenants) <= 10 =>
              /\ Len(result.value.TopMerchants) = Cardinality(ReturnedDateTenants)
              /\ TopMerchantsAmount = result.value.TotalAmount
              /\ TopMerchantsOrders = result.value.TotalOrders
        /\ Cardinality(ReturnedDateTenants) > 10 =>
              /\ Len(result.value.TopMerchants) = 10
              /\ TopMerchantsAmount < result.value.TotalAmount
              /\ TopMerchantsOrders < result.value.TotalOrders

\* C13 witness: an analysis of a date on which exactly 10 tenants have
\* records returned 10 groups whose sums add up to the total.
C13_Witness ==
    /\ AnalysisReturned
    /\ Cardinality(ReturnedDateTenants) = 10
    /\ Len(result.value.TopMerchants) = 10
    /\ result.value.TotalOrders = 10
    /\ TopMerchantsAmount = result.value.TotalAmount

\* C14 (as claimed): the returned TopMerchants list is in descending order of
\* summed amount, and tenants with equal sums are in ascending order of
\* tenant identifier.
C14_TopMerchantsRankedWithTieBreak ==
    AnalysisReturned =>
        \A i, j \in 1..Len(result.value.TopMerchants) :
            i < j =>
                LET a == result.value.TopMerchants[i]
                    b == result.value.TopMerchants[j]
                IN  \/ a.TotalAmount > b.TotalAmount
                    \/ a.TotalAmount = b.TotalAmount /\ a.MerchantID < b.MerchantID

\* A GetAnalysisData call with a well-formed date on which no stored order
\* falls in the zone of its tenant.
AnalysisOfEmptyDate ==
    /\ result.op = "GetAnalysisData"
    /\ result.arg.shape = "date"
    /\ result.arg.mo \in 1..12
    /\ result.arg.d \in 1..DaysInMonth[result.arg.mo]
    /\ \A o \in Orders :
          DateOf(o.order_time_utc + ZoneOffset(TenantOf(o).timezone, o.order_time_utc))
            # <<2024, result.arg.mo, result.arg.d>>

\* C15: aggregating over a date with no records succeeds (unless a query
\* itself fails at the database) and returns TotalOrders = 0, TotalAmount = 0
\* and empty hourly, timezone and top-merchant lists.
C15_EmptyDateAggregatesToEmpty ==
    (AnalysisOfEmptyDate /\ result.err # "QueryFailed") =>
        /\ result.err = Nil
        /\ result.value.TotalOrders = 0
        /\ result.value.TotalAmount = 0
        /\ result.value.HourlyBreakdown = << >>
        /\ result.value.TimezoneStats = << >>
        /\ result.value.TopMerchants = << >>

\* C15 witness: an analysis of a date without records returned, from tables
\* that hold orders on another date.
C15_Witness ==
    /\ AnalysisOfEmptyDate
    /\ AnalysisReturned
    /\ Len(dws_orders) > 0
    /\ result.value.TotalOrders = 0
    /\ result.value.TopMerchants = << >>

\* The offset, in seconds, the tz database gives the two zones with daylight
\* saving time at the instant t of 2024.
DstRuleSeconds(zone, t) ==
    IF zone = "America/New_York"
    THEN (IF t < Utc(3, 10, 7, 0) THEN -18000
          ELSE IF t < Utc(11, 3, 6, 0) THEN -14400 ELSE -18000)
    ELSE (IF t < Utc(4, 6, 14, 0) THEN 46800
          ELSE IF t < Utc(9, 28, 14, 0) THEN 43200 ELSE 46800)

\* C16: timezone_offset is the offset of the zone rule at the instant of the
\* record, and the local wall clock minus the UTC wall clock: the same zone
\* has two different offsets just before and just after a DST transition,
\* never one static offset.
C16_OffsetFollowsZoneRuleAcrossDst ==
    /\ \A r \in dws_orders_analysis_view :
          /\ r.timezone_offset = (r.order_time_local - r.order_time_utc) * 60
          /\ r.timezone \in {"America/New_York", "Pacific/Auckland"} =>
                r.timezone_offset = DstRuleSeconds(r.timezone, r.order_time_utc)
    /\ \A r1, r2 \in dws_orders_analysis_view :
          (r1.timezone = r2.timezone
             /\ \E x \in { Utc(3, 10, 7, 0), Utc(11, 3, 6, 0),
                            Utc(4, 6, 14, 0), Utc(9, 28, 14, 0) } :
                    /\ r1.order_time_utc = x - 30
                    /\ r2.order_time_utc = x
                    /\ (x \in { Utc(3, 10, 7, 0), Utc(11, 3, 6, 0) })
                          = (r1.timezone = "America/New_York"))
          => r1.timezone_offset # r2.timezone_offset
    /\ GetOrdersReturned =>
          \A o \in ReturnedOrders :
              o.Timezone \in {"America/New_York", "Pacific/Auckland"} =>
                  o.TimezoneOffset = DstRuleSeconds(o.Timezone, o.OrderTimeUTC)

\* C16 witness: GetOrders returned the two records of a New York merchant
\* anchored half an hour before and at the transition of 2024-03-10T07:00Z,
\* with the offsets -18000 and -14400.
C16_Witness ==
    /\ GetOrdersReturned
    /\ \E o1, o2 \in ReturnedOrders :
          /\ o1.Timezone = "America/New_York"
          /\ o2.MerchantID = o1.MerchantID
          /\ o1.OrderTimeUTC = Utc(3, 10, 6, 30)
          /\ o2.OrderTimeUTC = Utc(3, 10, 7, 0)
          /\ o1.TimezoneOffset = -18000
          /\ o2.TimezoneOffset = -14400

\* The local decomposition and classification of a projected record.
DecompositionOf(r) ==
    <<r.local_date, r.local_hour, r.local_day_of_week, r.timezone_offset,
      r.is_weekend, r.is_business_hour>>
DecompositionOfReturned(o) ==
    <<o.LocalDate, o.LocalHour, o.LocalDayOfWeek, o.TimezoneOffset,
      o.IsWeekend, o.IsBusinessHour>>

\* The decomposition of the pair (instant t, zone) by calendar arithmetic on
\* the UTC wall clock and the offset of the zone at t.
RefDecomposition(t, zone) ==
    LET off == ZoneOffset(zone, t)
    IN  <<CivilFrom((t \div 1440) + LocalDayShift(t, off), 1),
          RefLocalHour(t, off),
          RefLocalDow(t, off),
          off * 60,
          RefLocalDow(t, off) \in {0, 6},
          RefLocalDow(t, off) \in 1..5 /\ RefLocalHour(t, off) \in 9..18>>

\* C17: the projection of a (UTC instant, zone) pair is one fixed
\* decomposition and classification: any two projected records with the same
\* instant and zone agree, whichever records and tenants they belong to and
\* whichever other records and tenants are stored, and every record GetOrders
\* returns, under any filter and page, carries that same decomposition.
C17_ProjectionIsDeterministic ==
    /\ \A r1, r2 \in dws_orders_analysis_view :
          (r1.order_time_utc = r2.order_time_utc /\ r1.timezone = r2.timezone)
          => DecompositionOf(r1) = DecompositionOf(r2)
    /\ \A r \in dws_orders_analysis_view :
          DecompositionOf(r) = RefDecomposition(r.order_time_utc, r.timezone)
    /\ GetOrdersReturned =>
          \A o \in ReturnedOrders :
              DecompositionOfReturned(o) = RefDecomposition(o.OrderTimeUTC, o.Timezone)

\* C17 witness: GetOrders returned two records of two different tenants of
\* one zone anchored at the same instant, stored next to a tenant of another
\* zone or not, with the same decomposition.
C17_Witness ==
    /\ GetOrdersReturned
    /\ \E o1, o2 \in ReturnedOrders :
          /\ o1.OrderID # o2.OrderID
          /\ o1.MerchantID # o2.MerchantID
          /\ o1.Timezone = "Asia/Tokyo"
          /\ o2.Timezone = "Asia/Tokyo"
          /\ o1.OrderTimeUTC = o2.OrderTimeUTC
          /\ DecompositionOfReturned(o1) = DecompositionOfReturned(o2)

\* C18 (as claimed): a timezone text that is not a recognized zone name is
\* rejected and never stored, also when it has the shape Area/Location;
\* UTC is always accepted; no text is replaced by another zone.
C18_UnrecognizedZoneIsRejected ==
    /\ \A m \in Merchants : m.timezone \in Zones
    /\ result.op = "InsertMerchant" =>
          /\ result.arg \notin Zones => result.err # Nil
          /\ result.arg = "UTC" => result.err = Nil
          /\ result.err = Nil =>
                dim_merchant[Len(dim_merchant)].timezone = result.arg

\* A date text that is not a date YYYY-MM-DD, and an instant text that is not
\* an RFC3339 instant.
MalformedDate(d) ==
    \/ d.shape # "date"
    \/ d.mo < 1 \/ d.mo > 12
    \/ d.d < 1
    \/ d.mo \in 1..12 /\ d.d > DaysInMonth[d.mo]
MalformedInstant(t) ==
    \/ t.shape # "rfc3339"
    \/ t.mo < 1 \/ t.mo > 12
    \/ t.d < 1
    \/ t.mo \in 1..12 /\ t.d > DaysInMonth[t.mo]
    \/ t.hh < 0 \/ t.hh > 23
    \/ t.mi < 0 \/ t.mi > 59

\* C19: GetAnalysisData with a date that is not YYYY-MM-DD and
\* CompareTimezones with an instant that is not RFC3339 return an error and
\* no result, and send no query to the database.
C19_MalformedInputIsRejectedBeforeAnyQuery ==
    /\ (result.op = "GetAnalysisData" /\ MalformedDate(result.arg)) =>
          /\ result.err = "InvalidDateFormat"
          /\ result.value = Nil
          /\ result.queries = 0
    /\ (result.op = "CompareTimezones" /\ MalformedInstant(result.arg)) =>
          /\ result.err = "InvalidInstantFormat"
          /\ result.value = Nil
          /\ result.queries = 0

\* C19 witness: GetAnalysisData("2024-02-30") over tables that hold orders
\* returned the format error without a query.
C19_Witness ==
    /\ result.op = "GetAnalysisData"
    /\ result.arg = DateString("date", 2, 30)
    /\ Len(dws_orders) > 0
    /\ result.err = "InvalidDateFormat"
    /\ result.queries = 0

\* The successful result of GetTimezoneDemo.
DemoReturned == result.op = "GetTimezoneDemo" /\ result.err = Nil

\* C20: in the summary of GetTimezoneDemo every tenant is counted in exactly
\* one of next-day, same-day, prev-day, as its local date is after, equal to
\* or before the UTC date of the instant (2024-08-19T00:00Z); the three
\* counts add up to TotalTimezones and no tenant is both IsNextDay and
\* IsPrevDay.
C20_DayRelationCountsPartitionTenants ==
    DemoReturned =>
        LET convs == result.value.Timezones
            sum   == result.value.Summary
            shift(c) == LocalDayShift(Utc(8, 19, 0, 0),
                                      ZoneOffset(c.Timezone, Utc(8, 19, 0, 0)))
            after  == { i \in 1..Len(convs) : shift(convs[i]) = 1 }
            before == { i \in 1..Len(convs) : shift(convs[i]) = -1 }
        IN  /\ Len(convs) = Len(dim_merchant)
            /\ sum.TotalTimezones = Len(dim_merchant)
            /\ sum.NextDayCount + sum.SameDayCount + sum.PrevDayCount
                  = sum.TotalTimezones
            /\ sum.NextDayCount = Cardinality(after)
            /\ sum.PrevDayCount = Cardinality(before)
            /\ sum.SameDayCount = Len(convs) - Cardinality(after) - Cardinality(before)
            /\ \A i \in 1..Len(convs) :
                  /\ ~(convs[i].IsNextDay /\ convs[i].IsPrevDay)
                  /\ convs[i].IsNextDay <=> i \in after
                  /\ convs[i].IsPrevDay <=> i \in before

\* C20 witness: a demo over one tenant west of UTC and one tenant east of UTC
\* counted one prev-day and one same-day tenant.
C20_Witness ==
    /\ DemoReturned
    /\ Len(dim_merchant) = 2
    /\ result.value.Summary.PrevDayCount = 1
    /\ result.value.Summary.SameDayCount = 1
    /\ result.value.Summary.NextDayCount = 0
    /\ \E i \in 1..2 : result.value.Timezones[i].IsPrevDay

\* C21: no operation of the service (GetMerchants, GetOrders,
\* GetAnalysisData, CompareTimezones, GetTimezoneDemo, HealthCheck), whether
\* it succeeds or fails, and no response changes the tenants or the raw
\* records: every step leaves dim_merchant and dws_orders as they were.
C21_ServiceOperationsLeaveTablesUnchanged ==
    [][dim_merchant' = dim_merchant /\ dws_orders' = dws_orders]_vars

\* C21 witness: a listing of two merchants in another order than the table
\* holds them was returned, over a table of orders that is not empty.
C21_Witness ==
    /\ result.op = "GetMerchants"
    /\ result.err = Nil
    /\ Len(dim_merchant) = 2
    /\ result.value # dim_merchant
    /\ Len(dws_orders) > 0

\* A full first page of GetOrders with a timezone parameter.
GetOrdersReturnedInZone ==
    /\ GetOrdersReturned
    /\ result.arg.timezone # ""
    /\ result.arg.offset = 0
    /\ result.arg.limit >= Len(dws_orders)

\* C22: when the orders listing is requested with a timezone parameter Z,
\* the orders are shown converted to Z: every stored order is listed, and
\* the local time, local date and local hour of each listed order are its
\* UTC instant projected into Z.
C22_OrdersAreShownConvertedToRequestedZone ==
    GetOrdersReturnedInZone =>
        LET Z == result.arg.timezone
        IN  /\ \A o \in Orders :
                  \E r \in ReturnedOrders : r.OrderID = o.order_id
            /\ \A r \in ReturnedOrders :
                  /\ r.OrderTimeLocal = AtTimeZone(r.OrderTimeUTC, Z)
                  /\ r.LocalDate = DateOf(AtTimeZone(r.OrderTimeUTC, Z))
                  /\ r.LocalHour = ExtractHour(AtTimeZone(r.OrderTimeUTC, Z))

\* A retry function has returned.
RetryReturned == InRetry /\ result.arg.pc = "returned"

\* C23 (safety): a retry function makes at most three attempts; it returns
\* the result of the first successful attempt at once, with no error, no
\* attempt after it and the statement applied once; it returns an error
\* exactly when three attempts failed, and that error wraps the error of the
\* third attempt.
C23_RetrySafety ==
    InRetry =>
        /\ result.queries <= MaxAttempts
        /\ result.queries = Len(result.arg.tried) + result.arg.applied
        /\ result.arg.applied <= 1
        /\ result.arg.applied = 1 => result.arg.pc = "returned"
        /\ RetryReturned =>
              /\ result.err = Nil <=> result.arg.applied = 1
              /\ result.err = Nil => result.value = RetryValue(result.op)
              /\ result.err # Nil <=> Len(result.arg.tried) = MaxAttempts
              /\ result.err # Nil =>
                    /\ result.err = RetryWrap(result.arg.tried[MaxAttempts])
                    /\ result.value = Nil

\* C23: ExecWithRetry and QueryWithRetry make at most 3 attempts, return the
\* first success at once, return the wrapped error of the third attempt
\* exactly when all three failed, and every call returns.
C23_RetryReturnsWithinThreeAttempts ==
    /\ [](C23_RetrySafety)
    /\ (InRetry ~> RetryReturned)

\* C23 witness: a call returned the wrapped error of its third attempt after
\* three failures with different errors.
C23_Witness ==
    /\ RetryReturned
    /\ result.queries = 3
    /\ result.arg.tried = <<"timeout", "deadlock detected", "connection refused">>
    /\ result.err = RetryWrap("connection refused")

\* GetAnalysisData was called with a date that parses.
AnalysisCalledWithDate == result.op = "GetAnalysisData" /\ DateParseOK(result.arg)

\* C24: GetAnalysisData is all-or-nothing.  It runs the summary, the hourly
\* breakdown, the timezone statistics and the top merchants in that order;
\* when step k fails it returns no result and the error of step k after
\* exactly k queries, none of the later steps being run; a result is
\* returned only after all four queries, and then it holds all four parts.
C24_AnalysisIsAllOrNothing ==
    AnalysisCalledWithDate =>
        /\ result.err # Nil =>
              /\ result.value = Nil
              /\ \E k \in 1..Len(AnalysisSteps) :
                    /\ result.step = AnalysisSteps[k]
                    /\ result.queries = k
        /\ result.err = Nil =>
              /\ result.queries = Len(AnalysisSteps)
              /\ result.step = ""
              /\ result.value.TotalOrders = OrderSummary(result.arg).TotalOrders
              /\ result.value.HourlyBreakdown = HourlyBreakdown(result.arg)
              /\ result.value.TimezoneStats \in TimezoneStats(result.arg)
              /\ result.value.TopMerchants \in TopMerchants(result.arg)

\* C24 witness: over a date with orders the third query (timezone
\* statistics) failed; the call returned its error and no result after three
\* queries.
C24_Witness ==
    /\ AnalysisCalledWithDate
    /\ OrderSummary(result.arg).TotalOrders > 0
    /\ result.err = "QueryFailed"
    /\ result.step = "getTimezoneStats"
    /\ result.queries = 3
    /\ result.value = Nil

\* C25: for a tenant whose zone is a whole number k of hours from UTC at the
\* instant, -11 <= k <= 11, the hour difference CompareTimezones reports for
\* an instant given in UTC is k, whatever the UTC hour is and whether or not
\* the local time is on another day than the UTC time.
C25_HourDiffIsZoneOffset ==
    (CompareReturned /\ result.arg.off = 0) =>
        \A item \in ComparedItems :
            LET off == ZoneOffset(item.Timezone, ComparedInstant)
            IN  (off % 60 = 0 /\ -660 <= off /\ off <= 660) =>
                    item.TimeDifference * 60 = off

\* C25 witness: for a tenant 9 hours ahead of UTC the local hour was 15 less
\* than the UTC hour (the local time is on the next day) and the reported
\* difference was +9.
C25_Witness ==
    /\ CompareReturned
    /\ result.arg.off = 0
    /\ \E item \in ComparedItems :
          /\ ZoneOffset(item.Timezone, ComparedInstant) = 540
          /\ item.Hour - result.arg.hh = -15
          /\ item.LocalDate # DateOf(ComparedInstant)
          /\ item.TimeDifference = 9

\* The order counts and total amounts of the returned hourly breakdown, added.
HourlyOrders ==
    SumSeq([i \in 1..Len(result.value.HourlyBreakdown) |->
              result.value.HourlyBreakdown[i].OrderCount])
HourlyAmount ==
    SumSeq([i \in 1..Len(result.value.HourlyBreakdown) |->
              result.value.HourlyBreakdown[i].TotalAmount])

\* C26: the hourly breakdown of GetAnalysisData partitions its summary: the
\* OrderCounts add up to TotalOrders and the TotalAmounts to TotalAmount;
\* every entry has an hour in 0..23 and at least one order, and the entries
\* come in ascending order of hour without duplicates.
C26_HourlyBreakdownPartitionsSummary ==
    AnalysisReturned =>
        LET hb == result.value.HourlyBreakdown
        IN  /\ HourlyOrders = result.value.TotalOrders
            /\ HourlyAmount = result.value.TotalAmount
            /\ \A i \in 1..Len(hb) :
                  /\ hb[i].Hour \in 0..23
                  /\ hb[i].OrderCount >= 1
            /\ \A i, j \in 1..Len(hb) : i < j => hb[i].Hour < hb[j].Hour

\* C26 witness: a date with two orders in two different local hours gave a
\* breakdown of two entries.
C26_Witness ==
    /\ AnalysisReturned
    /\ result.value.TotalOrders = 2
    /\ Len(result.value.HourlyBreakdown) = 2
    /\ result.value.HourlyBreakdown[1].TotalAmount
          # result.value.HourlyBreakdown[2].TotalAmount

\* The least and the greatest local hour among the compared tenants.
ComparedMinHour ==
    CHOOSE h \in { item.Hour : item \in ComparedItems } :
        \A item \in ComparedItems : h <= item.Hour
ComparedMaxHour ==
    CHOOSE h \in { item.Hour : item \in ComparedItems } :
        \A item \in ComparedItems : h >= item.Hour

\* C27: when CompareTimezones returns N >= 1 tenants, BusinessHourCount and
\* WeekendCount lie in 0..N, TimezoneSpread is the greatest minus the least
\* local hour of the tenants and lies in 0..23, and AverageHour (the sum of
\* the hours over N) lies between the least and the greatest local hour;
\* the start values 24 and -1 of the loop never reach the result.
C27_StatisticsWithinTenantHours ==
    (CompareReturned /\ Len(result.value.Comparisons) >= 1) =>
        LET st == result.value.Statistics
            N  == Len(result.value.Comparisons)
        IN  /\ 0 <= st.BusinessHourCount /\ st.BusinessHourCount <= N
            /\ 0 <= st.WeekendCount /\ st.WeekendCount <= N
            /\ st.TimezoneSpread = ComparedMaxHour - ComparedMinHour
            /\ 0 <= st.TimezoneSpread /\ st.TimezoneSpread <= 23
            /\ ComparedMinHour \in 0..23 /\ ComparedMaxHour \in 0..23
            /\ st.AverageHour[2] = N
            /\ ComparedMinHour * N <= st.AverageHour[1]
            /\ st.AverageHour[1] <= ComparedMaxHour * N

\* C27 witness: two tenants at different local hours, one of them in its
\* business hours, gave a spread above 0 and an average strictly between the
\* two hours.
C27_Witness ==
    /\ CompareReturned
    /\ Len(result.value.Comparisons) = 2
    /\ result.value.Statistics.BusinessHourCount = 1
    /\ result.value.Statistics.TimezoneSpread > 0
    /\ ComparedMinHour * 2 < result.value.Statistics.AverageHour[1]
    /\ result.value.Statistics.AverageHour[1] < ComparedMaxHour * 2

\* The UTC offsets, in whole hours, of the tenants of a returned demo at the
\* instant of the demo.
DemoOffsetHours ==
    { ZoneOffset(result.value.Timezones[i].Timezone, DemoInstant) \div 60 :
        i \in 1..Len(result.value.Timezones) }

\* C28: when GetTimezoneDemo returns at least one tenant, MinOffset <=
\* MaxOffset and both are offsets of returned tenants, within -12..+14; the
\* start values 24 and -24 of the loop never appear in a returned summary,
\* also when an offset text is a zone abbreviation or does not parse.
C28_OffsetRangeIsOfReturnedTenants ==
    (DemoReturned /\ Len(result.value.Timezones) >= 1) =>
        LET sum == result.value.Summary
        IN  /\ sum.MinOffset <= sum.MaxOffset
            /\ sum.MinOffset \in DemoOffsetHours
            /\ sum.MaxOffset \in DemoOffsetHours
            /\ sum.MinOffset \in -12..14 /\ sum.MaxOffset \in -12..14
            /\ sum.MinOffset # 24 /\ sum.MaxOffset # -24

\* C29: GetTimezoneDemo projects the fixed instant 2024-08-19T00:00:00Z, the
\* first minute of a UTC day, so no tenant is on the next day: NextDayCount
\* is 0 and no tenant is flagged IsNextDay; a tenant at an offset of 0 or
\* more is on the same day, a tenant at a negative offset on the previous
\* day.
C29_DemoNeverCountsNextDay ==
    DemoReturned =>
        /\ result.value.UTCTime = Utc(8, 19, 0, 0)
        /\ result.value.Summary.NextDayCount = 0
        /\ \A i \in 1..Len(result.value.Timezones) :
              LET c   == result.value.Timezones[i]
                  off == ZoneOffset(c.Timezone, Utc(8, 19, 0, 0))
              IN  /\ ~c.IsNextDay
                  /\ off >= 0 => (~c.IsPrevDay /\ c.LocalDate = <<2024, 8, 19>>)
                  /\ off < 0 => (c.IsPrevDay /\ c.LocalDate = <<2024, 8, 18>>)

\* C29 witness: the tenant farthest east (Pacific/Kiritimati, UTC+14) was on
\* the same day and not on the next day.
C29_Witness ==
    /\ DemoReturned
    /\ result.value.Summary.NextDayCount = 0
    /\ \E i \in 1..Len(result.value.Timezones) :
          /\ result.value.Timezones[i].Timezone = "Pacific/Kiritimati"
          /\ result.value.Timezones[i].LocalDate = <<2024, 8, 19>>
          /\ ~result.value.Timezones[i].IsNextDay

\* HealthCheck was called; the calls that failed and the catalog it ran on.
HealthChecked == result.op = "HealthCheck"

\* Whether the k-th check of the claim passes: the ping, the table
\* dim_merchant, the table dws_orders, the view, a row in dim_merchant, a row
\* in dws_orders.
CheckPasses(k) ==
    /\ k \notin result.arg.failing
    /\ k = 2 => "dim_merchant" \in result.arg.catalog
    /\ k = 3 => "dws_orders" \in result.arg.catalog
    /\ k = 4 => "dws_orders_analysis_view" \in result.arg.catalog
    /\ k = 5 => Len(dim_merchant) >= 1
    /\ k = 6 => Len(dws_orders) >= 1

\* The checks that do not pass.
ChecksNotPassing == { k \in 1..6 : ~CheckPasses(k) }

\* C30: HealthCheck returns nil only if, in this order, the ping succeeds,
\* the tables dim_merchant and dws_orders exist, the view exists, and
\* dim_merchant and dws_orders each hold at least one row; otherwise it
\* returns the error of the first check that does not pass and performs no
\* check after it.
C30_HealthCheckStopsAtFirstFailure ==
    HealthChecked =>
        /\ result.err = Nil <=> ChecksNotPassing = {}
        /\ result.err = Nil => result.queries = 6
        /\ result.err # Nil =>
              \E k \in ChecksNotPassing :
                  /\ \A j \in ChecksNotPassing : k <= j
                  /\ result.queries = k
                  /\ result.err =
                        IF k \in result.arg.failing THEN HealthChecks[k].failed
                        ELSE HealthChecks[k].unhealthy

\* C30 witness: the table dws_orders did not exist and the row count of
\* dim_merchant would have failed too; the call returned the error of the
\* missing table after three checks.
C30_Witness ==
    /\ HealthChecked
    /\ result.arg.failing = {5}
    /\ result.arg.catalog = {"dim_merchant"}
    /\ Len(dim_merchant) >= 1
    /\ result.err = "TableMissing dws_orders"
    /\ result.queries = 3

====
